---------------------------- MODULE Spec2Model ----------------------------
(***************************************************************************)
(* A model of the hanafuda DOL patching driver (ELF/HanafudaDriver.cpp):   *)
(* the DOLFile image (header decoding, slot tables, disassembly scan,      *)
(* writeTo), the symbol-list injection, the synthesized linker script and  *)
(* the pre-write callback of LinkerDriver::link.                           *)
(*                                                                         *)
(* A uint32_t is the pair <<hi, lo>> of its two 16-bit halves, so that the *)
(* 32-bit width (and its wrap-around) is kept: value = hi * 65536 + lo.    *)
(* A byte buffer is a sequence of bytes; buffer offset p is element p + 1. *)
(***************************************************************************)
EXTENDS Integers, Sequences, FiniteSets, TLC

\* ------------------------------------------------------------------------
\* uint32_t arithmetic
\* ------------------------------------------------------------------------

Half == 256 * 256

U32(h, l) == <<h, l>>

Zero32 == U32(0, 0)

AllOnes32 == U32(65535, 65535)

\* a + b in uint32_t
Add32(a, b) ==
  LET s == a[2] + b[2]
  IN  U32((a[1] + b[1] + (s \div Half)) % Half, s % Half)

\* a - b in uint32_t
Sub32(a, b) ==
  LET d == a[2] - b[2]
      borrow == IF d < 0 THEN 1 ELSE 0
  IN  U32((a[1] - b[1] - borrow + Half) % Half, (d + Half) % Half)

Lt32(a, b) == a[1] < b[1] \/ (a[1] = b[1] /\ a[2] < b[2])

Le32(a, b) == a = b \/ Lt32(a, b)

\* std::max on uint32_t
Max32(a, b) == IF Lt32(a, b) THEN b ELSE a

\* (x + 31) & ~31 in uint32_t
Align32(x) ==
  LET y == Add32(x, U32(0, 31))
  IN  U32(y[1], y[2] - (y[2] % 32))

RECURSIVE BitOr(_, _)
\* bitwise or of two naturals
BitOr(a, b) ==
  IF a = 0 THEN b
  ELSE IF b = 0 THEN a
  ELSE (IF (a % 2 = 1) \/ (b % 2 = 1) THEN 1 ELSE 0) + 2 * BitOr(a \div 2, b \div 2)

Or32(a, b) == U32(BitOr(a[1], b[1]), BitOr(a[2], b[2]))

\* the value of a small uint32_t as an integer (used for buffer offsets)
Int32(v) == v[1] * Half + v[2]

\* an offset that can index the modelled buffers at all
Small32(v) == v[1] = 0

\* SwapByteOrder_32
SwapByteOrder_32(v) ==
  U32((v[2] % 256) * 256 + (v[2] \div 256), (v[1] % 256) * 256 + (v[1] \div 256))

\* the uint32_t a host reads from four consecutive bytes of memory
LoadHost(b, little) ==
  IF little THEN U32(b[4] * 256 + b[3], b[2] * 256 + b[1])
  ELSE U32(b[1] * 256 + b[2], b[3] * 256 + b[4])

\* the four bytes a host stores for a uint32_t
StoreHost(v, little) ==
  IF little THEN <<v[2] % 256, v[2] \div 256, v[1] % 256, v[1] \div 256>>
  ELSE <<v[1] \div 256, v[1] % 256, v[2] \div 256, v[2] % 256>>

\* Header::swapBig applied to one field
swapBig(v, little) == IF little THEN SwapByteOrder_32(v) ELSE v

\* ------------------------------------------------------------------------
\* DOL header layout
\* ------------------------------------------------------------------------

NumText == 7

NumData == 11

\* sizeof(DOLFile::Header): six tables and three scalar words
HeaderStructSize == 4 * (3 * NumText + 3 * NumData + 3)

\* the DOL header on file: struct Header and 28 reserved bytes
DolHeaderSize == HeaderStructSize + 28

TextIdx == 0 .. (NumText - 1)

DataIdx == 0 .. (NumData - 1)

\* word index of each header field inside struct Header
TextOffsWord(i) == i
DataOffsWord(j) == NumText + j
TextLoadsWord(i) == NumText + NumData + i
DataLoadsWord(j) == 2 * NumText + NumData + j
TextSizesWord(i) == 2 * NumText + 2 * NumData + i
DataSizesWord(j) == 3 * NumText + 2 * NumData + j
BssAddrWord == 3 * NumText + 3 * NumData
BssSizeWord == BssAddrWord + 1
EntryPointWord == BssAddrWord + 2

EmptySection == [Offset |-> Zero32, Addr |-> Zero32, Length |-> Zero32]

\* ------------------------------------------------------------------------
\* The base files given to --hanafuda-base-dol (the bounded input family)
\* ------------------------------------------------------------------------

\* the n-th body position of the family's files: 32-byte aligned, after the header
StdOff(n) == U32(0, DolHeaderSize + 32 * n)

\* load addresses start at 0x80003100
StdAddr(n) == U32(32768, 12544 + 32 * n)

StdLen == U32(0, 32)

\* 0x80004000, 0x100 bytes
StdBssAddr == U32(32768, 16384)
StdBssSize == U32(0, 256)

\* A layout names the occupied text and data slots and one way in which the
\* file departs from a well-formed DOL ("std": none).
Layout(T, D, kind) == [T |-> T, D |-> D, kind |-> kind]

Layouts ==
  { Layout({0}, {}, "std"),              \* one text slot
    Layout({0}, {0}, "std"),
    Layout({0, 1}, 0 .. 5, "std"),       \* the Dolphin SDK layout
    Layout({1}, {1}, "std"),             \* slot 0 of both tables empty
    Layout({}, {}, "std"),
    Layout(TextIdx, {0}, "std"),         \* no empty text slot
    Layout({0}, DataIdx, "std"),         \* no empty data slot
    Layout({0}, 0 .. 9, "std"),          \* one empty data slot
    Layout({0}, {0}, "stale"),           \* empty slot with address and size set
    Layout({0}, {0}, "reserved"),        \* non-zero reserved bytes
    Layout({0}, {0}, "misaligned"),      \* text slot 0 at offset 0x104
    Layout({0}, {0}, "zerolen"),         \* data slot 0 of length 0
    Layout({0}, {0}, "beyond"),          \* file cut 16 bytes before its last slot ends
    Layout({0}, {}, "beyond"),           \* the same, the last slot a text slot
    Layout({0}, {0}, "short"),           \* file cut to 16 bytes
    Layout({0}, {0}, "wrap") }           \* text slot 0 ends at 0xfffffff0, data slot 0 at address 0

\* the header fields of a layout's file
FieldsOf(L) ==
  [ TextOffs  |-> [i \in TextIdx |->
                     IF i \notin L.T THEN Zero32
                     ELSE IF L.kind = "misaligned" /\ i = 0 THEN U32(0, DolHeaderSize + 4)
                     ELSE StdOff(i)],
    DataOffs  |-> [j \in DataIdx |-> IF j \in L.D THEN StdOff(NumText + j) ELSE Zero32],
    TextLoads |-> [i \in TextIdx |->
                     IF i \notin L.T
                     THEN (IF L.kind = "stale" /\ i = 6 THEN StdAddr(i) ELSE Zero32)
                     ELSE IF L.kind = "wrap" /\ i = 0 THEN U32(65535, 65472)
                     ELSE StdAddr(i)],
    DataLoads |-> [j \in DataIdx |->
                     IF j \notin L.D THEN Zero32
                     ELSE IF L.kind = "wrap" /\ j = 0 THEN Zero32
                     ELSE StdAddr(NumText + j)],
    TextSizes |-> [i \in TextIdx |->
                     IF i \notin L.T
                     THEN (IF L.kind = "stale" /\ i = 6 THEN StdLen ELSE Zero32)
                     ELSE IF L.kind = "wrap" /\ i = 0 THEN U32(0, 48)
                     ELSE StdLen],
    DataSizes |-> [j \in DataIdx |->
                     IF j \notin L.D THEN Zero32
                     ELSE IF L.kind = "zerolen" /\ j = 0 THEN Zero32
                     ELSE StdLen],
    BssAddr   |-> StdBssAddr,
    BssSize   |-> StdBssSize,
    EntryPoint |-> StdAddr(0),
    Reserved  |-> IF L.kind = "reserved" THEN 90 ELSE 0 ]

\* word k of struct Header as the file holds it
FieldWord(F, k) ==
  IF k < NumText THEN F.TextOffs[k]
  ELSE IF k < NumText + NumData THEN F.DataOffs[k - NumText]
  ELSE IF k < 2 * NumText + NumData THEN F.TextLoads[k - NumText - NumData]
  ELSE IF k < 2 * NumText + 2 * NumData THEN F.DataLoads[k - 2 * NumText - NumData]
  ELSE IF k < 3 * NumText + 2 * NumData THEN F.TextSizes[k - 2 * NumText - 2 * NumData]
  ELSE IF k < 3 * NumText + 3 * NumData THEN F.DataSizes[k - 3 * NumText - 2 * NumData]
  ELSE IF k = BssAddrWord THEN F.BssAddr
  ELSE IF k = BssSizeWord THEN F.BssSize
  ELSE F.EntryPoint

\* The code of every text slot of the family, as big-endian words:
\*   lis r1,0x8040 ; ori r1,r1,0x1234 ; bl .-8 ; <illegible> ;
\*   lis r13,0x8041 ; ori r13,r13,0x20 ; lis r2,0x8042 ; bl .+0x20 ; bctrl
\* (a slot of 32 bytes holds the first eight; a longer one goes on, and round)
Prog ==
  << U32(15392, 32832), U32(24609, 4660), U32(19455, 65529), U32(0, 0),
     U32(15776, 32833), U32(25005, 32), U32(15424, 32834), U32(18432, 33),
     U32(20096, 1057) >>

\* end of the last occupied slot of the file (at least the header)
RECURSIVE MaxEnd(_, _, _)
MaxEnd(F, k, acc) ==
  IF k = NumText + NumData THEN acc
  ELSE LET off == IF k < NumText THEN F.TextOffs[k] ELSE F.DataOffs[k - NumText]
           len == IF k < NumText THEN F.TextSizes[k] ELSE F.DataSizes[k - NumText]
           e   == IF off = Zero32 THEN 0 ELSE Int32(off) + Int32(len)
       IN  MaxEnd(F, k + 1, IF e > acc THEN e ELSE acc)

FileSize(L) ==
  LET e == MaxEnd(FieldsOf(L), 0, DolHeaderSize)
  IN  IF L.kind = "short" THEN 16
      ELSE IF L.kind = "beyond" THEN e - 16
      ELSE e

\* the byte at offset p of a layout's file
FileByte(L, F, p) ==
  IF p < HeaderStructSize THEN StoreHost(FieldWord(F, p \div 4), FALSE)[(p % 4) + 1]
  ELSE IF p < DolHeaderSize THEN F.Reserved
  ELSE IF \E i \in L.T : p >= Int32(F.TextOffs[i])
                         /\ p < Int32(F.TextOffs[i]) + Int32(F.TextSizes[i])
       THEN LET i == CHOOSE i \in L.T : p >= Int32(F.TextOffs[i])
                                        /\ p < Int32(F.TextOffs[i]) + Int32(F.TextSizes[i])
                q == p - Int32(F.TextOffs[i])
            IN  StoreHost(Prog[((q \div 4) % Len(Prog)) + 1], FALSE)[(q % 4) + 1]
       ELSE (p * 7 + 3) % 256

BaseFile(L) ==
  LET F == FieldsOf(L)
  IN  [p \in 1 .. FileSize(L) |-> FileByte(L, F, p - 1)]

BaseFiles == { BaseFile(L) : L \in Layouts }

\* ------------------------------------------------------------------------
\* Reading the base buffer
\* ------------------------------------------------------------------------

\* What a read past the end of the buffer returns is not defined by the
\* language.  The outcomes modelled are: the process faults (Crash), or the
\* memory there holds the big-endian word w repeated, for w in JunkWords.
JunkWords == {0, 8}

\* the outcome in which the process faults
Crash == 0 - 1

JunkByte(p, w) == IF p % 4 = 3 /\ w # Crash THEN w ELSE 0

\* the byte at offset p of buffer mb; past its end, the junk of outcome w
ReadByte(mb, p, w) == IF p < Len(mb) THEN mb[p + 1] ELSE JunkByte(p, w)

\* Header head = *reinterpret_cast<const Header*>(M.getBufferStart()): field k
RawHeaderWord(mb, k, w, little) ==
  LoadHost(<<ReadByte(mb, 4 * k, w), ReadByte(mb, 4 * k + 1, w),
             ReadByte(mb, 4 * k + 2, w), ReadByte(mb, 4 * k + 3, w)>>, little)

\* field k of head after head.swapBig()
HeaderWord(mb, k, w, little) == swapBig(RawHeaderWord(mb, k, w, little), little)

\* the copy of the header reads sizeof(Header) bytes whatever the buffer holds
HeaderReadOutOfBounds(mb) == Len(mb) < HeaderStructSize

\* ------------------------------------------------------------------------
\* DOLFile::DOLFile: the slot tables
\* ------------------------------------------------------------------------

\* the first loop without its copy of TextSizes[i]
CtorTextSectionNoLength(mb, i, w, little) ==
  IF HeaderWord(mb, TextOffsWord(i), w, little) # Zero32
  THEN [Offset |-> HeaderWord(mb, TextOffsWord(i), w, little),
        Addr   |-> HeaderWord(mb, TextLoadsWord(i), w, little),
        Length |-> Zero32]
  ELSE EmptySection

\* Texts[i] after the first loop of the constructor
CtorTextSection(mb, i, w, little) ==
  IF HeaderWord(mb, TextOffsWord(i), w, little) # Zero32
  THEN [Offset |-> HeaderWord(mb, TextOffsWord(i), w, little),
        Addr   |-> HeaderWord(mb, TextLoadsWord(i), w, little),
        Length |-> HeaderWord(mb, TextSizesWord(i), w, little)]
  ELSE EmptySection

\* Datas[j] after the second loop of the constructor
CtorDataSection(mb, j, w, little) ==
  IF HeaderWord(mb, DataOffsWord(j), w, little) # Zero32
  THEN [Offset |-> HeaderWord(mb, DataOffsWord(j), w, little),
        Addr   |-> HeaderWord(mb, DataLoadsWord(j), w, little),
        Length |-> HeaderWord(mb, DataSizesWord(j), w, little)]
  ELSE EmptySection

\* the value of the loop variable i after "for (i = 0; i < 7; ++i)"
CtorLoopEndI == NumText

\* the value of the loop variable j after "for (j = 0; j < 11; ++j)"
CtorLoopEndJ == NumData

\* if (i >= 2 && j >= 6) DolphinSections = true;
CtorDolphinSections == CtorLoopEndI >= 2 /\ CtorLoopEndJ >= 6

\* ------------------------------------------------------------------------
\* The disassembler (MCDisassembler::getInstruction for PowerPC 750cl)
\* ------------------------------------------------------------------------

\* the sign-extended displacement LI || 00 of a branch word
BranchDisp(hi, lo) ==
  LET li == hi % 1024
  IN  U32(IF li >= 512 THEN 64512 + li ELSE li, lo - (lo % 4))

NoInst == [Opcode |-> "NONE", Reg |-> -1, Imm |-> AllOnes32,
           isCall |-> FALSE, defLR |-> FALSE]

\* Decoding of the instruction word <<hi, lo>> at virtual address va.
\* Reg is the first register operand (-1: none), Imm the first immediate
\* operand (0xffffffff: none), as getPPCRegisterOp/getPPCImmediateOp see them.
DecodeWord(hi, lo, va) ==
  LET primary == hi \div 1024
  IN  IF primary = 18 /\ lo % 2 = 1
      THEN [S |-> "Success", Size |-> 4,
            Inst |-> [Opcode |-> IF (lo \div 2) % 2 = 0 THEN "BL" ELSE "BLA",
                      Reg |-> -1,
                      Imm |-> IF (lo \div 2) % 2 = 0 THEN Add32(va, BranchDisp(hi, lo))
                              ELSE BranchDisp(hi, lo),
                      isCall |-> TRUE, defLR |-> TRUE]]
      ELSE IF primary = 15
      THEN [S |-> "Success", Size |-> 4,
            Inst |-> [Opcode |-> IF hi % 32 = 0 THEN "LIS" ELSE "ADDIS",
                      Reg |-> (hi \div 32) % 32, Imm |-> U32(0, lo),
                      isCall |-> FALSE, defLR |-> FALSE]]
      ELSE IF primary = 24
      THEN [S |-> "Success", Size |-> 4,
            Inst |-> [Opcode |-> "ORI", Reg |-> hi % 32, Imm |-> U32(0, lo),
                      isCall |-> FALSE, defLR |-> FALSE]]
      ELSE IF primary = 19 /\ hi % 1024 = 640 /\ lo = 1057
      THEN [S |-> "Success", Size |-> 4,
            Inst |-> [Opcode |-> "BCTRL", Reg |-> -1, Imm |-> AllOnes32,
                      isCall |-> TRUE, defLR |-> TRUE]]
      ELSE IF primary = 0
      THEN [S |-> "Fail", Size |-> 4, Inst |-> NoInst]
      ELSE [S |-> "Success", Size |-> 4,
            Inst |-> [Opcode |-> "OTHER", Reg |-> -1, Imm |-> AllOnes32,
                      isCall |-> FALSE, defLR |-> FALSE]]

\* Drv.DC->getInstruction(Inst, Size, Data.slice(FileIndex), VAIndex, ...):
\* fewer than four bytes left give Fail with Size 0; a FileIndex past the end
\* of the buffer makes the slice, and every byte read through it, undefined.
getInstruction(mb, FileIndex, va, w) ==
  IF FileIndex <= Len(mb) /\ Len(mb) - FileIndex < 4
  THEN [S |-> "Fail", Size |-> 0, Inst |-> NoInst]
  ELSE DecodeWord(ReadByte(mb, FileIndex, w) * 256 + ReadByte(mb, FileIndex + 1, w),
                  ReadByte(mb, FileIndex + 2, w) * 256 + ReadByte(mb, FileIndex + 3, w),
                  va)

\* the decode at FileIndex reads past the end of the buffer
DecodeOutOfBounds(mb, FileIndex) == FileIndex > Len(mb)

\* ------------------------------------------------------------------------
\* DOLFile::scanForRelocations
\* ------------------------------------------------------------------------

\* the SDK bases and the call-site index before the scan; Index is the
\* inner loop's variable, Trace the iterations made so far
ScanInit == [StackBase |-> Zero32, Sdata2Base |-> Zero32, SdataBase |-> Zero32,
             Calls |-> <<>>, oob |-> FALSE, Index |-> 0, Trace |-> <<>>]

\* register numbers of R1, R2, R13 as the operands carry them
ppcR1 == 1
ppcR2 == 2
ppcR13 == 13

\* the scan for the bases applied to every text slot
ScanBasesAnySlot(acc, s, Inst) ==
  IF Inst.Reg = ppcR1
  THEN (IF Inst.Opcode = "LIS" THEN [acc EXCEPT !.StackBase = U32(Inst.Imm[2], 0)]
        ELSE IF Inst.Opcode = "ORI"
        THEN [acc EXCEPT !.StackBase = Or32(acc.StackBase, Inst.Imm)]
        ELSE acc)
  ELSE IF Inst.Reg = ppcR2
  THEN (IF Inst.Opcode = "LIS" THEN [acc EXCEPT !.Sdata2Base = U32(Inst.Imm[2], 0)]
        ELSE IF Inst.Opcode = "ORI"
        THEN [acc EXCEPT !.Sdata2Base = Or32(acc.Sdata2Base, Inst.Imm)]
        ELSE acc)
  ELSE IF Inst.Reg = ppcR13
  THEN (IF Inst.Opcode = "LIS" THEN [acc EXCEPT !.SdataBase = U32(Inst.Imm[2], 0)]
        ELSE IF Inst.Opcode = "ORI"
        THEN [acc EXCEPT !.SdataBase = Or32(acc.SdataBase, Inst.Imm)]
        ELSE acc)
  ELSE acc

\* "if (s == 0)": the .init scan for the stack and small data bases
ScanBases(acc, s, Inst) ==
  IF s # 0 THEN acc
  ELSE IF Inst.Reg = ppcR1
  THEN (IF Inst.Opcode = "LIS" THEN [acc EXCEPT !.StackBase = U32(Inst.Imm[2], 0)]
        ELSE IF Inst.Opcode = "ORI"
        THEN [acc EXCEPT !.StackBase = Or32(acc.StackBase, Inst.Imm)]
        ELSE acc)
  ELSE IF Inst.Reg = ppcR2
  THEN (IF Inst.Opcode = "LIS" THEN [acc EXCEPT !.Sdata2Base = U32(Inst.Imm[2], 0)]
        ELSE IF Inst.Opcode = "ORI"
        THEN [acc EXCEPT !.Sdata2Base = Or32(acc.Sdata2Base, Inst.Imm)]
        ELSE acc)
  ELSE IF Inst.Reg = ppcR13
  THEN (IF Inst.Opcode = "LIS" THEN [acc EXCEPT !.SdataBase = U32(Inst.Imm[2], 0)]
        ELSE IF Inst.Opcode = "ORI"
        THEN [acc EXCEPT !.SdataBase = Or32(acc.SdataBase, Inst.Imm)]
        ELSE acc)
  ELSE acc

\* the call recorded under the file offset of the instruction after it
ScanCallsNextOffset(acc, Inst, FileIndex) ==
  IF Inst.isCall /\ Inst.defLR /\ Inst.Imm # AllOnes32
  THEN [acc EXCEPT !.Calls = Append(acc.Calls, <<Inst.Imm, FileIndex + 4>>)]
  ELSE acc

\* "if (Desc.isCall() && Desc.hasImplicitDefOfPhysReg(ppcLR))"
ScanCalls(acc, Inst, FileIndex) ==
  IF Inst.isCall /\ Inst.defLR /\ Inst.Imm # AllOnes32
  THEN [acc EXCEPT !.Calls = Append(acc.Calls, <<Inst.Imm, FileIndex>>)]
  ELSE acc

\* one iteration of the inner loop, "Index += Size" included
ScanStep(mb, s, sec, acc, w) ==
  LET FileIndex == Int32(sec.Offset) + acc.Index
      VAIndex == Add32(sec.Addr, U32(0, acc.Index))
      D == getInstruction(mb, FileIndex, VAIndex, w)
      Size == IF D.S = "Fail" /\ D.Size = 0 THEN 1 ELSE D.Size
      oob == acc.oob \/ DecodeOutOfBounds(mb, FileIndex)
      \* an iteration is completed unless the process has faulted
      a1 == [acc EXCEPT !.oob = oob,
                        !.Trace = IF oob /\ w = Crash THEN acc.Trace
                                  ELSE Append(acc.Trace,
                                              [s |-> s, Index |-> acc.Index,
                                               S |-> D.S, Size |-> Size])]
  IN  IF D.S = "Fail"
      THEN [a1 EXCEPT !.Index = acc.Index + Size]
      ELSE [ScanCalls(ScanBases(a1, s, D.Inst), D.Inst, FileIndex)
              EXCEPT !.Index = acc.Index + D.Size]

RECURSIVE ScanSection(_, _, _, _, _)
\* the inner loop "for (uint64_t Index = 0; Index < sec.Length; Index += Size)"
ScanSection(mb, s, sec, acc, w) ==
  IF acc.Index >= Int32(sec.Length) THEN acc
  ELSE ScanSection(mb, s, sec, ScanStep(mb, s, sec, acc, w), w)

RECURSIVE ScanFrom(_, _, _, _, _)
\* the outer loop "for (int s = 0; s < 7; ++s)"
ScanFrom(mb, texts, s, acc, w) ==
  IF s = NumText THEN acc
  ELSE IF texts[s].Offset = Zero32 THEN ScanFrom(mb, texts, s + 1, acc, w)
  ELSE ScanFrom(mb, texts, s + 1,
                ScanSection(mb, s, texts[s], [acc EXCEPT !.Index = 0], w), w)

scanForRelocations(mb, texts, w) == ScanFrom(mb, texts, 0, ScanInit, w)

\* ------------------------------------------------------------------------
\* DOLFile: construction and queries
\* ------------------------------------------------------------------------

\* Optional<DOLFile> DolFile before emplace
NoDolFile ==
  [hasValue |-> FALSE,
   Texts |-> [i \in TextIdx |-> EmptySection],
   Datas |-> [j \in DataIdx |-> EmptySection],
   BssAddr |-> Zero32, BssSize |-> Zero32, EntryPoint |-> Zero32,
   StackBase |-> Zero32, SdataBase |-> Zero32, Sdata2Base |-> Zero32,
   DolphinSections |-> FALSE,
   OrigCallAddrToInstFileOffs |-> <<>>]

\* DOLFile::DOLFile(M, Drv)
DOLFileCtor(mb, w, little) ==
  LET texts == [i \in TextIdx |-> CtorTextSection(mb, i, w, little)]
      datas == [j \in DataIdx |-> CtorDataSection(mb, j, w, little)]
      scan  == scanForRelocations(mb, texts, w)
  IN  [dol |-> [hasValue |-> TRUE,
                Texts |-> texts,
                Datas |-> datas,
                BssAddr |-> HeaderWord(mb, BssAddrWord, w, little),
                BssSize |-> HeaderWord(mb, BssSizeWord, w, little),
                EntryPoint |-> HeaderWord(mb, EntryPointWord, w, little),
                StackBase |-> scan.StackBase,
                SdataBase |-> scan.SdataBase,
                Sdata2Base |-> scan.Sdata2Base,
                DolphinSections |-> CtorDolphinSections,
                OrigCallAddrToInstFileOffs |-> scan.Calls],
       oob |-> HeaderReadOutOfBounds(mb) \/ scan.oob,
       trace |-> IF HeaderReadOutOfBounds(mb) /\ w = Crash THEN <<>> ELSE scan.Trace]

Min(S) == CHOOSE x \in S : \A y \in S : x <= y

Max(S) == CHOOSE x \in S : \A y \in S : x >= y

\* the lookup returning the highest empty text slot
getUnusedTextSectionIndexLast(dol) ==
  IF \E i \in TextIdx : dol.Texts[i].Offset = Zero32
  THEN Max({i \in TextIdx : dol.Texts[i].Offset = Zero32})
  ELSE -1

\* DOLFile::getUnusedTextSectionIndex
getUnusedTextSectionIndex(dol) ==
  IF \E i \in TextIdx : dol.Texts[i].Offset = Zero32
  THEN Min({i \in TextIdx : dol.Texts[i].Offset = Zero32})
  ELSE -1

\* the lookup with its test inverted: the lowest occupied data slot
getUnusedDataSectionIndexOccupied(dol) ==
  IF \E j \in DataIdx : dol.Datas[j].Offset # Zero32
  THEN Min({j \in DataIdx : dol.Datas[j].Offset # Zero32})
  ELSE -1

\* DOLFile::getUnusedDataSectionIndex
getUnusedDataSectionIndex(dol) ==
  IF \E j \in DataIdx : dol.Datas[j].Offset = Zero32
  THEN Min({j \in DataIdx : dol.Datas[j].Offset = Zero32})
  ELSE -1

RECURSIVE MaxOver(_, _, _, _)
\* the two loops of getUnallocatedFileOffset/getUnallocatedAddressOffset:
\* field is "Offset" or "Addr", k runs over the 7 text then the 11 data slots
MaxOver(dol, field, k, acc) ==
  IF k = NumText + NumData THEN acc
  ELSE LET sec == IF k < NumText THEN dol.Texts[k] ELSE dol.Datas[k - NumText]
           base == IF field = "Offset" THEN sec.Offset ELSE sec.Addr
       IN  MaxOver(dol, field, k + 1, Max32(acc, Add32(base, sec.Length)))

getUnallocatedFileOffset(dol) == Align32(MaxOver(dol, "Offset", 0, Zero32))

getUnallocatedAddressOffset(dol) == Align32(MaxOver(dol, "Addr", 0, Zero32))

\* "addr >= sec.Addr && addr < (sec.Addr + sec.Length)"
AddrInSection(addr, sec) ==
  Le32(sec.Addr, addr) /\ Lt32(addr, Add32(sec.Addr, sec.Length))

\* DOLFile::validateSymbolAddr; invalid is its return value
validateSymbolAddr(dol, addr) ==
  IF \E i \in TextIdx : AddrInSection(addr, dol.Texts[i])
  THEN [invalid |-> FALSE, secOut |-> "Text",
        secIdxOut |-> Min({i \in TextIdx : AddrInSection(addr, dol.Texts[i])})]
  ELSE IF \E j \in DataIdx : AddrInSection(addr, dol.Datas[j])
  THEN [invalid |-> FALSE, secOut |-> "Data",
        secIdxOut |-> Min({j \in DataIdx : AddrInSection(addr, dol.Datas[j])})]
  ELSE IF Le32(dol.BssAddr, addr) /\ Lt32(addr, Add32(dol.BssAddr, dol.BssSize))
  THEN [invalid |-> FALSE, secOut |-> "Bss", secIdxOut |-> 0]
  ELSE [invalid |-> TRUE, secOut |-> "None", secIdxOut |-> 0]

\* DOLFile::replaceTargetAddressRelocations: the buffer after the call.  The
\* loop visits the call sites recorded under oldAddr and edits none of them.
replaceTargetAddressRelocations(mb, dol, oldAddr, newAddr) == mb

\* ------------------------------------------------------------------------
\* DOLFile::writeTo
\* ------------------------------------------------------------------------

\* word k of SwappedHead before swapBig: fields of empty slots stay zero
WriteHeadWord(dol, k) ==
  IF k < NumText
  THEN dol.Texts[k].Offset
  ELSE IF k < NumText + NumData
  THEN dol.Datas[k - NumText].Offset
  ELSE IF k < 2 * NumText + NumData
  THEN (IF dol.Texts[k - NumText - NumData].Offset = Zero32 THEN Zero32
        ELSE dol.Texts[k - NumText - NumData].Addr)
  ELSE IF k < 2 * NumText + 2 * NumData
  THEN (IF dol.Datas[k - 2 * NumText - NumData].Offset = Zero32 THEN Zero32
        ELSE dol.Datas[k - 2 * NumText - NumData].Addr)
  ELSE IF k < 3 * NumText + 2 * NumData
  THEN (IF dol.Texts[k - 2 * NumText - 2 * NumData].Offset = Zero32 THEN Zero32
        ELSE dol.Texts[k - 2 * NumText - 2 * NumData].Length)
  ELSE IF k < 3 * NumText + 3 * NumData
  THEN (IF dol.Datas[k - 3 * NumText - 2 * NumData].Offset = Zero32 THEN Zero32
        ELSE dol.Datas[k - 3 * NumText - 2 * NumData].Length)
  ELSE IF k = BssAddrWord THEN dol.BssAddr
  ELSE IF k = BssSizeWord THEN dol.BssSize
  ELSE dol.EntryPoint

\* the bytes of SwappedHead after swapBig, as the host holds them in memory
SwappedHeadBytes(dol, little) ==
  [q \in 1 .. HeaderStructSize |->
     StoreHost(swapBig(WriteHeadWord(dol, (q - 1) \div 4), little), little)[((q - 1) % 4) + 1]]

\* _getTextSectionData(i).data() / _getDataSectionData(j).data(): substr clamps
\* the start of the data to the size of the buffer
SectionDataStart(mb, sec) ==
  IF Small32(sec.Offset) /\ sec.Offset[2] <= Len(mb) THEN sec.Offset[2] ELSE Len(mb)

\* the copy of an occupied slot reads past the end of the base buffer
SlotReadOutOfBounds(sec, mb) ==
  /\ sec.Offset # Zero32
  /\ sec.Length # Zero32
  /\ (~Small32(sec.Offset) \/ ~Small32(sec.Length)
      \/ sec.Offset[2] + sec.Length[2] > Len(mb))

\* the copy of an occupied slot writes past the end of the output buffer
SlotWriteOutOfBounds(sec, n) ==
  /\ sec.Offset # Zero32
  /\ sec.Length # Zero32
  /\ (~Small32(sec.Offset) \/ ~Small32(sec.Length)
      \/ sec.Offset[2] + sec.Length[2] > n)

\* "if (!sec.Offset) continue; memmove(BufData + sec.Offset, data, sec.Length)":
\* the buffer afterwards (bytes stored past its end are not part of it)
CopySlot(mb, sec, buf, w) ==
  IF sec.Offset = Zero32 \/ ~Small32(sec.Offset) \/ sec.Offset[2] >= Len(buf) THEN buf
  ELSE LET off   == sec.Offset[2]
           room  == Len(buf) - off
           n     == IF Small32(sec.Length) /\ sec.Length[2] < room
                    THEN sec.Length[2] ELSE room
           start == SectionDataStart(mb, sec)
           data  == IF start + n <= Len(mb) THEN SubSeq(mb, start + 1, start + n)
                    ELSE [k \in 1 .. n |-> ReadByte(mb, start + k - 1, w)]
       IN  SubSeq(buf, 1, off) \o data \o SubSeq(buf, off + n + 1, Len(buf))

RECURSIVE CopySlots(_, _, _, _, _)
\* the two copy loops of writeTo: k runs over the 7 text then the 11 data slots
CopySlots(dol, mb, buf, k, w) ==
  IF k = NumText + NumData THEN buf
  ELSE CopySlots(dol, mb,
                 CopySlot(mb, IF k < NumText THEN dol.Texts[k] ELSE dol.Datas[k - NumText],
                          buf, w),
                 k + 1, w)

\* "memmove(BufData, &SwappedHead, sizeof(SwappedHead))"
CopyHeader(dol, buf, little) ==
  LET n == IF Len(buf) < HeaderStructSize THEN Len(buf) ELSE HeaderStructSize
  IN  SubSeq(SwappedHeadBytes(dol, little), 1, n) \o SubSeq(buf, n + 1, Len(buf))

\* DOLFile::writeTo(BufData): the buffer afterwards, and whether an access
\* left a buffer
writeTo(dol, mb, buf, w, little) ==
  [buf |-> CopyHeader(dol, CopySlots(dol, mb, buf, 0, w), little),
   oob |-> \/ Len(buf) < HeaderStructSize
           \/ \E i \in TextIdx : SlotReadOutOfBounds(dol.Texts[i], mb)
                                 \/ SlotWriteOutOfBounds(dol.Texts[i], Len(buf))
           \/ \E j \in DataIdx : SlotReadOutOfBounds(dol.Datas[j], mb)
                                 \/ SlotWriteOutOfBounds(dol.Datas[j], Len(buf))]

\* ------------------------------------------------------------------------
\* The pre-write callback (Config->OPreWrite)
\* ------------------------------------------------------------------------

\* state of the callback's loop: DataSec is the index of the patch data slot
\* (-1: nullptr), err the error reported (<<>>: none)
CallbackInit(dol) == [Texts |-> dol.Texts, Datas |-> dol.Datas, DataSec |-> -1, err |-> <<>>]

SectionOf(Sec) == [Offset |-> Sec.FileOff, Addr |-> Sec.VA, Length |-> Sec.Size]

\* the iteration with the patch data slot given the length of the section alone
CallbackStepSizeOnly(st, Sec) ==
  IF Sec.FileOff = Zero32 THEN st
  ELSE IF Sec.Name = ".sdata" \/ Sec.Name = ".sdata2"
  THEN (IF getUnusedDataSectionIndex(st) = -1
        THEN [st EXCEPT !.err = <<"Ran out of DOL data sections for", Sec.Name>>]
        ELSE [st EXCEPT !.Datas[getUnusedDataSectionIndex(st)] = SectionOf(Sec)])
  ELSE IF Sec.Name = ".htext"
  THEN (IF getUnusedTextSectionIndex(st) = -1
        THEN [st EXCEPT !.err = <<"Ran out of DOL text sections for", Sec.Name>>]
        ELSE [st EXCEPT !.Texts[getUnusedTextSectionIndex(st)] = SectionOf(Sec)])
  ELSE IF st.DataSec = -1 /\ getUnusedDataSectionIndex(st) = -1
  THEN [st EXCEPT !.err = <<"Ran out of DOL data sections for", Sec.Name>>]
  ELSE LET idx == IF st.DataSec = -1 THEN getUnusedDataSectionIndex(st) ELSE st.DataSec
           cur == IF st.DataSec = -1
                  THEN [Offset |-> Sec.FileOff, Addr |-> Sec.VA, Length |-> Zero32]
                  ELSE st.Datas[idx]
       IN  [st EXCEPT !.DataSec = idx,
                      !.Datas[idx] = [cur EXCEPT !.Length = Sec.Size]]

\* one iteration of "for (OutputSectionBase<ELF32BE> *Sec : OutputSections)"
CallbackStep(st, Sec) ==
  IF Sec.FileOff = Zero32 THEN st
  ELSE IF Sec.Name = ".sdata" \/ Sec.Name = ".sdata2"
  THEN (IF getUnusedDataSectionIndex(st) = -1
        THEN [st EXCEPT !.err = <<"Ran out of DOL data sections for", Sec.Name>>]
        ELSE [st EXCEPT !.Datas[getUnusedDataSectionIndex(st)] = SectionOf(Sec)])
  ELSE IF Sec.Name = ".htext"
  THEN (IF getUnusedTextSectionIndex(st) = -1
        THEN [st EXCEPT !.err = <<"Ran out of DOL text sections for", Sec.Name>>]
        ELSE [st EXCEPT !.Texts[getUnusedTextSectionIndex(st)] = SectionOf(Sec)])
  ELSE IF st.DataSec = -1 /\ getUnusedDataSectionIndex(st) = -1
  THEN [st EXCEPT !.err = <<"Ran out of DOL data sections for", Sec.Name>>]
  ELSE LET idx == IF st.DataSec = -1 THEN getUnusedDataSectionIndex(st) ELSE st.DataSec
           cur == IF st.DataSec = -1
                  THEN [Offset |-> Sec.FileOff, Addr |-> Sec.VA, Length |-> Zero32]
                  ELSE st.Datas[idx]
       IN  [st EXCEPT !.DataSec = idx,
                      !.Datas[idx] = [cur EXCEPT !.Length =
                                        Add32(Sub32(Sec.VA, cur.Addr), Sec.Size)]]

RECURSIVE CallbackLoopNoReturn(_, _, _)
\* the loop going on to the next section after an error
CallbackLoopNoReturn(st, secs, k) ==
  IF k > Len(secs) THEN st
  ELSE CallbackLoopNoReturn(CallbackStep(st, secs[k]), secs, k + 1)

RECURSIVE CallbackLoop(_, _, _)
\* the loop from section k on; an error returns from the callback at once
CallbackLoop(st, secs, k) ==
  IF k > Len(secs) \/ st.err # <<>> THEN st
  ELSE CallbackLoop(CallbackStep(st, secs[k]), secs, k + 1)

\* ------------------------------------------------------------------------
\* The host linker, as the driver sees it
\* ------------------------------------------------------------------------

\* most output sections the host hands to the callback
MaxSecs == 3

\* most symbol replacements the host's symbol table reports
MaxReplace == 1

\* output section names in the order the host lays them out
SecOrder == <<".sdata", ".sdata2", ".htext", ".data", ".bss">>

RECURSIVE Pick(_, _)
\* the subsequence of SecOrder from position k on whose names are in S
Pick(S, k) ==
  IF k > Len(SecOrder) THEN <<>>
  ELSE IF SecOrder[k] \in S THEN <<SecOrder[k]>> \o Pick(S, k + 1)
  ELSE Pick(S, k + 1)

Reverse(q) == [k \in 1 .. Len(q) |-> q[Len(q) + 1 - k]]

\* The output sections named S after layout: the k-th is placed 32 * (k - 1)
\* bytes past Config->InitialFileOffset / InitialAddrOffset and is 16 bytes long.
\* The vector is handed over in layout order, or reversed.
HostSections(S, reversed, cfg) ==
  LET names == Pick(S, 1)
      laid  == [k \in 1 .. Len(names) |->
                  [Name    |-> names[k],
                   FileOff |-> Add32(cfg.InitialFileOffset, U32(0, 32 * (k - 1))),
                   VA      |-> Add32(cfg.InitialAddrOffset, U32(0, 32 * (k - 1))),
                   Size    |-> U32(0, 16)]]
  IN  IF reversed THEN Reverse(laid) ELSE laid

\* size of the pre-zeroed output buffer: it reaches InitialFileOffset and the
\* end of every output section
HostBufferSize(secs, cfg) ==
  Max({Int32(cfg.InitialFileOffset)}
      \cup {Int32(secs[k].FileOff) + Int32(secs[k].Size) : k \in 1 .. Len(secs)})

RECURSIVE HostOverlay(_, _)
\* after the callback the host copies each output section over the buffer
HostOverlay(buf, secs) ==
  IF secs = <<>> THEN buf
  ELSE LET off == Int32(Head(secs).FileOff)
           n   == Int32(Head(secs).Size)
       IN  HostOverlay(SubSeq(buf, 1, off) \o [k \in 1 .. n |-> 204]
                         \o SubSeq(buf, off + n + 1, Len(buf)),
                       Tail(secs))

\* ------------------------------------------------------------------------
\* SymbolListFile: the parser of --hanafuda-dol-symbol-list
\* ------------------------------------------------------------------------

\* A buffer of text is a sequence of one-character strings.

\* the characters StringRef::ltrim and rtrim strip by default
Whitespace == {" ", "\t", "\n", "\f", "\r"}

RECURSIVE ltrim(_)
ltrim(s) == IF s = <<>> \/ Head(s) \notin Whitespace THEN s ELSE ltrim(Tail(s))

RECURSIVE rtrim(_)
rtrim(s) ==
  IF s = <<>> \/ s[Len(s)] \notin Whitespace THEN s ELSE rtrim(SubSeq(s, 1, Len(s) - 1))

\* positions of the separator sep in s
Positions(s, sep) == {k \in 1 .. Len(s) : s[k] = sep}

\* StringRef::split(sep): the text before the first sep and the text after it
split(s, sep) ==
  IF Positions(s, sep) = {} THEN [first |-> s, second |-> <<>>]
  ELSE LET k == Min(Positions(s, sep))
       IN  [first |-> SubSeq(s, 1, k - 1), second |-> SubSeq(s, k + 1, Len(s))]

DigitChars == <<"0", "1", "2", "3", "4", "5", "6", "7", "8", "9">>
LowerChars == <<"a", "b", "c", "d", "e", "f", "g", "h", "i", "j", "k", "l", "m",
                "n", "o", "p", "q", "r", "s", "t", "u", "v", "w", "x", "y", "z">>
UpperChars == <<"A", "B", "C", "D", "E", "F", "G", "H", "I", "J", "K", "L", "M",
                "N", "O", "P", "Q", "R", "S", "T", "U", "V", "W", "X", "Y", "Z">>

\* position of c in table, less one; -1 when it is not there
IndexIn(table, c) ==
  IF \E k \in 1 .. Len(table) : table[k] = c
  THEN (CHOOSE k \in 1 .. Len(table) : table[k] = c) - 1
  ELSE 0 - 1

\* the value of c as a digit, 36 when it is none
CharVal(c) ==
  IF IndexIn(DigitChars, c) >= 0 THEN IndexIn(DigitChars, c)
  ELSE IF IndexIn(LowerChars, c) >= 0 THEN IndexIn(LowerChars, c) + 10
  ELSE IF IndexIn(UpperChars, c) >= 0 THEN IndexIn(UpperChars, c) + 10
  ELSE 36

StartsWith(s, p) == Len(s) >= Len(p) /\ SubSeq(s, 1, Len(p)) = p

\* GetAutoSenseRadix(Str): the radix, and Str without the prefix that told it
GetAutoSenseRadix(s) ==
  IF StartsWith(s, <<"0", "x">>) \/ StartsWith(s, <<"0", "X">>)
  THEN [Radix |-> 16, Str |-> SubSeq(s, 3, Len(s))]
  ELSE IF StartsWith(s, <<"0", "b">>) \/ StartsWith(s, <<"0", "B">>)
  THEN [Radix |-> 2, Str |-> SubSeq(s, 3, Len(s))]
  ELSE IF StartsWith(s, <<"0", "o">>)
  THEN [Radix |-> 8, Str |-> SubSeq(s, 3, Len(s))]
  ELSE IF Len(s) > 1 /\ s[1] = "0" /\ IndexIn(DigitChars, s[2]) >= 0
  THEN [Radix |-> 8, Str |-> Tail(s)]
  ELSE [Radix |-> 10, Str |-> s]

RECURSIVE ConsumeDigits(_, _, _)
\* the digit loop of consumeUnsignedInteger: acc.Result is the value read so
\* far, acc.big says that it left 32 bits (the conversion to uint32_t, or the
\* overflow test of the loop, then fails), acc.n counts the digits consumed
ConsumeDigits(s, Radix, acc) ==
  IF s = <<>> \/ CharVal(Head(s)) >= Radix THEN [acc EXCEPT !.Str = s]
  ELSE LET l == acc.Result[2] * Radix + CharVal(Head(s))
           h == acc.Result[1] * Radix + (l \div Half)
       IN  ConsumeDigits(Tail(s), Radix,
                         [Result |-> U32(h % Half, l % Half),
                          big |-> acc.big \/ h >= Half,
                          n |-> acc.n + 1,
                          Str |-> Tail(s)])

\* line.consumeInteger(0, offset): failed is its return value, Str the line
\* after the digits, offset the integer
consumeInteger(line) ==
  LET a == GetAutoSenseRadix(line)
      c == ConsumeDigits(a.Str, a.Radix,
                         [Result |-> Zero32, big |-> FALSE, n |-> 0, Str |-> a.Str])
  IN  IF a.Str = <<>> \/ c.n = 0 \/ c.big
      THEN [failed |-> TRUE, Str |-> line, offset |-> Zero32]
      ELSE [failed |-> FALSE, Str |-> c.Str, offset |-> c.Result]

\* one iteration of "while (!S.empty())": the rest of the buffer and the list
SymbolListStep(S, List) ==
  LET lineAndRest == split(S, "\n")
      rest == ltrim(lineAndRest.second)
      c    == consumeInteger(lineAndRest.first)
      name == rtrim(ltrim(c.Str))
  IN  [S |-> rest,
       List |-> IF ~c.failed /\ name # <<>> THEN Append(List, <<c.offset, name>>)
                ELSE List]

RECURSIVE SymbolListLoop(_, _)
SymbolListLoop(S, List) ==
  IF S = <<>> THEN List
  ELSE SymbolListLoop(SymbolListStep(S, List).S, SymbolListStep(S, List).List)

\* SymbolListFile::SymbolListFile(S): the list it builds
SymbolListFile(S) == SymbolListLoop(S, <<>>)

RECURSIVE Join(_)
\* the text of several lines, each ended by a newline
Join(lines) ==
  IF lines = <<>> THEN <<>> ELSE Head(lines) \o <<"\n">> \o Join(Tail(lines))

\* the symbol-list files given to the driver: none (empty), and
\*   0x80003100 foo / 0xDEADBEEF bar
\*   0x80004010 b / 0x800031E4 d / 0x80003124 t
\* whose addresses lie in text slot 0, outside the image, in the BSS region,
\* in data slot 0 and in text slot 1 of the family's base files
SymListTexts ==
  { <<>>,
    Join(<< <<"0", "x", "8", "0", "0", "0", "3", "1", "0", "0", " ", "f", "o", "o">>,
            <<"0", "x", "D", "E", "A", "D", "B", "E", "E", "F", " ", "b", "a", "r">> >>),
    Join(<< <<"0", "x", "8", "0", "0", "0", "4", "0", "1", "0", " ", "b">>,
            <<"0", "x", "8", "0", "0", "0", "3", "1", "E", "4", " ", "d">>,
            <<"0", "x", "8", "0", "0", "0", "3", "1", "2", "4", " ", "t">> >>) }

\* most tokens of a generated symbol-list text
MaxTokens == 4

\* the pieces generated texts are made of
Tokens ==
  { <<" ">>, <<"\n">>, <<"0", "x", "1", "f">>, <<"1", "2">>, <<"0", "1", "7">>,
    <<"g", "o">> }

RECURSIVE TextsOf(_)
\* the texts of at most n tokens
TextsOf(n) ==
  IF n = 0 THEN {<<>>}
  ELSE TextsOf(n - 1) \cup {t \o k : t \in TextsOf(n - 1), k \in Tokens}

\* addresses of the definitions that replace a symbol
NewAddrs == { U32(32768, 20480) }

\* ------------------------------------------------------------------------
\* The synthesized linker script (LinkerDriver::link)
\* ------------------------------------------------------------------------

InputDesc(pats) == [FilePat |-> "*", SectionPatterns |-> pats,
                    SortOuter |-> "None", SortInner |-> "None"]

SdataIn == InputDesc(<<".sdata", ".sbss">>)
Sdata2In == InputDesc(<<".sdata2", ".sbss2">>)
TextIn == InputDesc(<<".text", ".text.*">>)
DataIn == InputDesc(<<".data", ".data.*", ".rodata", ".rodata.*", ".bss">>)

\* the push_back calls on the Commands of the four output-section commands:
\* <<command, input description>> in source order
CommandPushes ==
  << <<"SdataOut", SdataIn>>, <<"Sdata2Out", Sdata2In>>,
     <<"TextOut", TextIn>>, <<"TextOut", DataIn>> >>

\* the commands whose AddrExpr is assigned Align32Expr, in source order
AddrExprAssigns == <<"Sdata2Out", "Sdata2Out", "TextOut", "DataOut">>

RECURSIVE PushesOf(_, _)
PushesOf(cmd, k) ==
  IF k > Len(CommandPushes) THEN <<>>
  ELSE IF CommandPushes[k][1] = cmd THEN <<CommandPushes[k][2]>> \o PushesOf(cmd, k + 1)
  ELSE PushesOf(cmd, k + 1)

OutputSectionCommand(cmd, name) ==
  [Name |-> name,
   Commands |-> PushesOf(cmd, 1),
   AddrExpr |-> IF \E k \in 1 .. Len(AddrExprAssigns) : AddrExprAssigns[k] = cmd
                THEN "Align32Expr" ELSE "none"]

\* ScriptConfig->Commands after the four push_back calls
SynthesizedScript ==
  << OutputSectionCommand("SdataOut", ".sdata"),
     OutputSectionCommand("Sdata2Out", ".sdata2"),
     OutputSectionCommand("TextOut", ".htext"),
     OutputSectionCommand("DataOut", ".hdata") >>

\* ------------------------------------------------------------------------
\* State
\* ------------------------------------------------------------------------

VARIABLES
  pc,                 \* position of the driver: "start", "link", "resolve",
                      \* "callbackDone", "mainDone", "done", "crashed"
  IsLittleEndianHost, \* byte order of the host the driver was built for
  Args,               \* the parsed command line
  HasError,           \* the process-wide error flag
  Errors,             \* the messages given to error(), in order
  MB,                 \* the base buffer (DOLFile::MB)
  DolFile,            \* LinkerDriver::DolFile
  dolListBuffer,      \* the text of the symbol-list file
  DolSymListFile,     \* the records of the symbol-list file
  Symtab,             \* the symbols installed, in order
  Config,             \* the fields of Config the driver sets
  ScriptCommands,     \* ScriptConfig->Commands
  OutputSections,     \* the vector the host hands to the callback
  BufData,            \* the output buffer
  OutputWritten,      \* the output file was committed
  LinkResult,         \* what lld::hanafuda::link returned ("none": not yet)
  BaseDol,            \* history: DolFile as constructed
  OutOfBounds,        \* history: some access left its buffer
  ScanTrace,          \* history: the iterations of the disassembly scan
  Replaced            \* history: <<old address, new address>> of replaced symbols

vars == <<pc, IsLittleEndianHost, Args, HasError, Errors, MB, DolFile, dolListBuffer,
          DolSymListFile, Symtab, Config, ScriptCommands, OutputSections, BufData, OutputWritten,
          LinkResult, BaseDol, OutOfBounds, ScanTrace, Replaced>>

NoConfig == [OFormatBinary |-> FALSE, InitialFileOffset |-> Zero32,
             InitialAddrOffset |-> Zero32, CommonAlignment |-> 0,
             SDataBase |-> Zero32, SData2Base |-> Zero32, OPreWrite |-> FALSE]

Init ==
  /\ pc = "start"
  /\ IsLittleEndianHost \in BOOLEAN
  /\ Args = [hanafuda_base_dol |-> FALSE, hanafuda_dol_symbol_list |-> FALSE]
  /\ HasError = FALSE
  /\ Errors = <<>>
  /\ MB = <<>>
  /\ DolFile = NoDolFile
  /\ dolListBuffer = <<>>
  /\ DolSymListFile = <<>>
  /\ Symtab = <<>>
  /\ Config = NoConfig
  /\ ScriptCommands = <<>>
  /\ OutputSections = <<>>
  /\ BufData = <<>>
  /\ OutputWritten = FALSE
  /\ LinkResult = "none"
  /\ BaseDol = NoDolFile
  /\ OutOfBounds = FALSE
  /\ ScanTrace = <<>>
  /\ Replaced = {}

\* error(msg)
error(msg) == HasError' = TRUE /\ Errors' = Append(Errors, msg)

\* ------------------------------------------------------------------------
\* LinkerDriver::main
\* ------------------------------------------------------------------------

\* --hanafuda-base-dol is absent
MainNoBaseDol ==
  /\ pc = "start"
  /\ Args' = [hanafuda_base_dol |-> FALSE, hanafuda_dol_symbol_list |-> FALSE]
  /\ error(<<"--hanafuda-base-dol=<dol-file> is a required argument of lld-hanafuda">>)
  /\ pc' = "mainDone"
  /\ UNCHANGED <<IsLittleEndianHost, dolListBuffer, ScanTrace, MB, DolFile, DolSymListFile, Symtab, Config,
                 ScriptCommands, OutputSections, BufData, OutputWritten, LinkResult,
                 BaseDol, OutOfBounds, Replaced>>

\* readFile(dolArg) fails and reports it
MainReadFail ==
  /\ pc = "start"
  /\ \E sl \in BOOLEAN :
       Args' = [hanafuda_base_dol |-> TRUE, hanafuda_dol_symbol_list |-> sl]
  /\ error(<<"cannot open base dol">>)
  /\ pc' = "mainDone"
  /\ UNCHANGED <<IsLittleEndianHost, dolListBuffer, ScanTrace, MB, DolFile, DolSymListFile, Symtab, Config,
                 ScriptCommands, OutputSections, BufData, OutputWritten, LinkResult,
                 BaseDol, OutOfBounds, Replaced>>

\* the test with both lookups required to fail
NoSlotLeftAnd(dol) ==
  getUnusedTextSectionIndex(dol) = -1 /\ getUnusedDataSectionIndex(dol) = -1

\* "getUnusedTextSectionIndex() == -1 || getUnusedDataSectionIndex() == -1"
NoSlotLeft(dol) ==
  getUnusedTextSectionIndex(dol) = -1 \/ getUnusedDataSectionIndex(dol) = -1

\* the file is read and DolFile.emplace(...) runs; what follows depends on it
MainRead(file, w, sl) ==
  /\ pc = "start"
  /\ Args' = [hanafuda_base_dol |-> TRUE, hanafuda_dol_symbol_list |-> sl]
  /\ MB' = file
  /\ OutOfBounds' = DOLFileCtor(file, w, IsLittleEndianHost).oob
  /\ ScanTrace' = DOLFileCtor(file, w, IsLittleEndianHost).trace
  /\ UNCHANGED <<IsLittleEndianHost, dolListBuffer, DolSymListFile, Symtab, ScriptCommands,
                 OutputSections, BufData, OutputWritten, LinkResult, Replaced>>

\* the constructor's reads past the buffer fault
MainCrash ==
  \E file \in BaseFiles, sl \in BOOLEAN :
    /\ MainRead(file, Crash, sl)
    /\ DOLFileCtor(file, Crash, IsLittleEndianHost).oob
    /\ pc' = "crashed"
    /\ UNCHANGED <<HasError, Errors, DolFile, Config, BaseDol>>

\* the base DOL has no empty text slot or no empty data slot
MainNoSlot ==
  \E file \in BaseFiles, w \in JunkWords, sl \in BOOLEAN :
    LET c == DOLFileCtor(file, w, IsLittleEndianHost)
    IN  /\ MainRead(file, w, sl)
        /\ DolFile' = c.dol
        /\ BaseDol' = c.dol
        /\ NoSlotLeft(c.dol)
        /\ error(<<"unable to allocate additional section data in", "dolArg">>)
        /\ pc' = "mainDone"
        /\ UNCHANGED Config

\* readConfigs, createFiles or checkOptions reported an error
MainHostError ==
  \E file \in BaseFiles, w \in JunkWords, sl \in BOOLEAN :
    LET c == DOLFileCtor(file, w, IsLittleEndianHost)
    IN  /\ MainRead(file, w, sl)
        /\ DolFile' = c.dol
        /\ BaseDol' = c.dol
        /\ ~NoSlotLeft(c.dol)
        /\ error(<<"option error">>)
        /\ Config' = [Config EXCEPT !.SDataBase = c.dol.SdataBase,
                                    !.SData2Base = c.dol.Sdata2Base]
        /\ pc' = "mainDone"

\* main reaches "link(Args)"
MainToLink ==
  \E file \in BaseFiles, w \in JunkWords, sl \in BOOLEAN :
    LET c == DOLFileCtor(file, w, IsLittleEndianHost)
    IN  /\ MainRead(file, w, sl)
        /\ DolFile' = c.dol
        /\ BaseDol' = c.dol
        /\ ~NoSlotLeft(c.dol)
        /\ Config' = [Config EXCEPT !.SDataBase = c.dol.SdataBase,
                                    !.SData2Base = c.dol.Sdata2Base]
        /\ pc' = "link"
        /\ UNCHANGED <<HasError, Errors>>

\* ------------------------------------------------------------------------
\* LinkerDriver::link
\* ------------------------------------------------------------------------

\* the symbol of one record with the section index left at zero
AbsoluteSymbolWrongIndex(dol, rec) ==
  LET v == validateSymbolAddr(dol, rec[1])
  IN  IF v.invalid THEN <<>>
      ELSE << [Name |-> rec[2], Value |-> rec[1], Kind |-> "DefinedRegular",
               HanafudaType |-> v.secOut, HanafudaSection |-> 0] >>

\* the symbol of one record of the list, or no symbol
AbsoluteSymbol(dol, rec) ==
  LET v == validateSymbolAddr(dol, rec[1])
  IN  IF v.invalid THEN <<>>
      ELSE << [Name |-> rec[2], Value |-> rec[1], Kind |-> "DefinedRegular",
               HanafudaType |-> v.secOut, HanafudaSection |-> v.secIdxOut] >>

RECURSIVE InstallSymbols(_, _, _)
\* "for (const std::pair<uint32_t, StringRef>& sym : DolSymListFile)"
InstallSymbols(dol, list, k) ==
  IF k > Len(list) THEN <<>>
  ELSE AbsoluteSymbol(dol, list[k]) \o InstallSymbols(dol, list, k + 1)

\* link() up to the end of the script synthesis
LinkSetup ==
  /\ pc = "link"
  /\ \E text \in SymListTexts :
       /\ (text # <<>>) = Args.hanafuda_dol_symbol_list
       /\ dolListBuffer' = text
       /\ DolSymListFile' = SymbolListFile(text)
       /\ Symtab' = InstallSymbols(DolFile, SymbolListFile(text), 1)
  /\ Config' = [Config EXCEPT !.OFormatBinary = TRUE,
                              !.InitialFileOffset = getUnallocatedFileOffset(DolFile),
                              !.InitialAddrOffset = getUnallocatedAddressOffset(DolFile),
                              !.CommonAlignment = 32,
                              !.OPreWrite = TRUE]
  /\ ScriptCommands' = SynthesizedScript
  /\ pc' = "resolve"
  /\ UNCHANGED <<IsLittleEndianHost, Args, HasError, Errors, MB, DolFile, OutputSections,
                 BufData, OutputWritten, LinkResult, BaseDol, OutOfBounds, ScanTrace,
                 Replaced>>

\* HanafudaSymbolTable::replaceDefinedSymbolPreTrigger for symbol k, which a
\* definition at address newAddr replaces
ReplaceDefinedSymbol ==
  /\ pc = "resolve"
  /\ Cardinality(Replaced) < MaxReplace
  /\ \E k \in 1 .. Len(Symtab), newAddr \in NewAddrs :
       /\ Symtab[k].Kind = "DefinedRegular"
       /\ MB' = replaceTargetAddressRelocations(MB, DolFile, Symtab[k].Value, Zero32)
       /\ Replaced' = Replaced \cup {<<Symtab[k].Value, newAddr>>}
       /\ Symtab' = [Symtab EXCEPT ![k] = [@ EXCEPT !.Value = newAddr,
                                                    !.Kind = "Replaced",
                                                    !.HanafudaType = "None",
                                                    !.HanafudaSection = 0]]
  /\ UNCHANGED <<pc, IsLittleEndianHost, dolListBuffer, ScanTrace, Args, HasError, Errors, DolFile, DolSymListFile,
                 Config, ScriptCommands, OutputSections, BufData, OutputWritten,
                 LinkResult, BaseDol, OutOfBounds>>

\* symbol resolution reported an error: link() returns before writeResult,
\* main returns, and lld::hanafuda::link returns !HasError
LinkHostError ==
  /\ pc = "resolve"
  /\ error(<<"duplicate symbol">>)
  /\ LinkResult' = FALSE
  /\ pc' = "done"
  /\ UNCHANGED <<IsLittleEndianHost, dolListBuffer, ScanTrace, Args, MB, DolFile, DolSymListFile, Symtab, Config,
                 ScriptCommands, OutputSections, BufData, OutputWritten, BaseDol,
                 OutOfBounds, Replaced>>

\* the callback's result for the sections secs under outcome w of its
\* out-of-bounds accesses
Callback(secs, w) ==
  LET st  == CallbackLoop(CallbackInit(DolFile), secs, 1)
      dol == [DolFile EXCEPT !.Texts = st.Texts, !.Datas = st.Datas]
      zeroed == [q \in 1 .. HostBufferSize(secs, Config) |-> 0]
      wr  == writeTo(dol, MB, zeroed, w, IsLittleEndianHost)
  IN  [dol |-> dol, err |-> st.err, zeroed |-> zeroed, wr |-> wr]

\* the callback reports an error and returns before writeTo
PreWriteError ==
  /\ pc = "resolve"
  /\ \E S \in SUBSET {SecOrder[k] : k \in 1 .. Len(SecOrder)}, reversed \in BOOLEAN :
       LET secs == HostSections(S, reversed, Config)
           c == Callback(secs, 0)
       IN  /\ Cardinality(S) <= MaxSecs
           /\ reversed => Cardinality(S) > 1
           /\ c.err # <<>>
           /\ OutputSections' = secs
           /\ DolFile' = c.dol
           /\ BufData' = c.zeroed
           /\ error(c.err)
  /\ pc' = "callbackDone"
  /\ UNCHANGED <<IsLittleEndianHost, dolListBuffer, ScanTrace, Args, MB, DolSymListFile, Symtab, Config,
                 ScriptCommands, OutputWritten, LinkResult, BaseDol, OutOfBounds, Replaced>>

\* the callback assigns the slots and stamps the base DOL into the buffer
PreWrite ==
  /\ pc = "resolve"
  /\ \E S \in SUBSET {SecOrder[k] : k \in 1 .. Len(SecOrder)}, reversed \in BOOLEAN,
        w \in JunkWords :
       LET secs == HostSections(S, reversed, Config)
           c == Callback(secs, w)
       IN  /\ Cardinality(S) <= MaxSecs
           /\ reversed => Cardinality(S) > 1
           /\ c.err = <<>>
           /\ OutputSections' = secs
           /\ DolFile' = c.dol
           /\ BufData' = c.wr.buf
           /\ OutOfBounds' = (OutOfBounds \/ c.wr.oob)
  /\ pc' = "callbackDone"
  /\ UNCHANGED <<IsLittleEndianHost, dolListBuffer, ScanTrace, Args, HasError, Errors, MB, DolSymListFile, Symtab,
                 Config, ScriptCommands, OutputWritten, LinkResult, BaseDol, Replaced>>

\* writeTo's accesses past a buffer fault
PreWriteCrash ==
  /\ pc = "resolve"
  /\ \E S \in SUBSET {SecOrder[k] : k \in 1 .. Len(SecOrder)}, reversed \in BOOLEAN :
       LET secs == HostSections(S, reversed, Config)
           c == Callback(secs, Crash)
       IN  /\ Cardinality(S) <= MaxSecs
           /\ reversed => Cardinality(S) > 1
           /\ c.err = <<>>
           /\ c.wr.oob
           /\ OutputSections' = secs
           /\ DolFile' = c.dol
  /\ OutOfBounds' = TRUE
  /\ pc' = "crashed"
  /\ UNCHANGED <<IsLittleEndianHost, dolListBuffer, ScanTrace, Args, HasError, Errors, MB, DolSymListFile, Symtab,
                 Config, ScriptCommands, BufData, OutputWritten, LinkResult, BaseDol,
                 Replaced>>

\* the host overlays the output sections and commits the file unless an
\* error was reported; link() and main return; lld::hanafuda::link returns !HasError
Finish ==
  /\ pc = "callbackDone"
  /\ IF HasError
     THEN UNCHANGED <<BufData, OutputWritten>>
     ELSE /\ BufData' = HostOverlay(BufData, OutputSections)
          /\ OutputWritten' = TRUE
  /\ LinkResult' = ~HasError
  /\ pc' = "done"
  /\ UNCHANGED <<IsLittleEndianHost, dolListBuffer, ScanTrace, Args, HasError, Errors, MB, DolFile, DolSymListFile,
                 Symtab, Config, ScriptCommands, OutputSections, BaseDol, OutOfBounds,
                 Replaced>>

\* main returned without linking: lld::hanafuda::link returns !HasError
Return ==
  /\ pc = "mainDone"
  /\ LinkResult' = ~HasError
  /\ pc' = "done"
  /\ UNCHANGED <<IsLittleEndianHost, dolListBuffer, ScanTrace, Args, HasError, Errors, MB, DolFile, DolSymListFile,
                 Symtab, Config, ScriptCommands, OutputSections, BufData, OutputWritten,
                 BaseDol, OutOfBounds, Replaced>>

Next ==
  \/ MainNoBaseDol
  \/ MainReadFail
  \/ MainCrash
  \/ MainNoSlot
  \/ MainHostError
  \/ MainToLink
  \/ LinkSetup
  \/ ReplaceDefinedSymbol
  \/ LinkHostError
  \/ PreWriteError
  \/ PreWrite
  \/ PreWriteCrash
  \/ Finish
  \/ Return

Spec == Init /\ [][Next]_vars

\* ------------------------------------------------------------------------
\* The symbol-list parser on generated texts
\* ------------------------------------------------------------------------

\* link() has read the file named by --hanafuda-dol-symbol-list
InitSymList ==
  /\ pc = "symlist"
  /\ IsLittleEndianHost \in BOOLEAN
  /\ Args = [hanafuda_base_dol |-> TRUE, hanafuda_dol_symbol_list |-> TRUE]
  /\ HasError = FALSE
  /\ Errors = <<>>
  /\ MB = <<>>
  /\ DolFile = NoDolFile
  /\ dolListBuffer \in TextsOf(MaxTokens)
  /\ DolSymListFile = <<>>
  /\ Symtab = <<>>
  /\ Config = NoConfig
  /\ ScriptCommands = <<>>
  /\ OutputSections = <<>>
  /\ BufData = <<>>
  /\ OutputWritten = FALSE
  /\ LinkResult = "none"
  /\ BaseDol = NoDolFile
  /\ OutOfBounds = FALSE
  /\ ScanTrace = <<>>
  /\ Replaced = {}

\* "SymbolListFile DolSymListFile(dolListBuffer.getValue().getBuffer())"
LoadSymbolList ==
  /\ pc = "symlist"
  /\ DolSymListFile' = SymbolListFile(dolListBuffer)
  /\ pc' = "symlistDone"
  /\ UNCHANGED <<IsLittleEndianHost, dolListBuffer, ScanTrace, Args, HasError, Errors, MB, DolFile,
                 Symtab, Config, ScriptCommands, OutputSections, BufData, OutputWritten,
                 LinkResult, BaseDol, OutOfBounds, Replaced>>

NextSymList == LoadSymbolList

SpecSymList == InitSymList /\ [][NextSymList]_vars

\* ------------------------------------------------------------------------
\* Properties
\* ------------------------------------------------------------------------

NumSlots == NumText + NumData

\* slot k of the 7 text and 11 data slots, counted through both tables
SlotOf(dol, k) == IF k < NumText THEN dol.Texts[k] ELSE dol.Datas[k - NumText]

Occupied(sec) == sec.Offset # Zero32

\* byte range [sec.Offset, sec.Offset + sec.Length) can be indexed
SmallSlot(sec) == Small32(sec.Offset) /\ Small32(sec.Length)

\* buf and mb hold the same bytes at offsets lo .. hi - 1, as far as both reach
SameBytes(buf, mb, lo, hi) ==
  LET h == Min({hi, Len(buf), Len(mb)})
  IN  lo >= h \/ SubSeq(buf, lo + 1, h) = SubSeq(mb, lo + 1, h)

\* buf holds zero at offsets lo .. hi - 1, as far as it reaches
ZeroBytes(buf, lo, hi) == \A q \in (lo + 1) .. Min({hi, Len(buf)}) : buf[q] = 0

\* a + b without wrap-around: <<carry, high half, low half>>
Wide(a, b) ==
  LET l == a[2] + b[2]
      h == a[1] + b[1] + (l \div Half)
  IN  <<h \div Half, h % Half, l % Half>>

\* a < e for a 32-bit a and a wide e
LtWide(a, e) == e[1] > 0 \/ Lt32(a, <<e[2], e[3]>>)

\* [a, a + la) and [b, b + lb) share a point
RangesOverlap(a, la, b, lb) ==
  /\ la # Zero32
  /\ lb # Zero32
  /\ LtWide(a, Wide(b, lb))
  /\ LtWide(b, Wide(a, la))

\* another occupied slot of dol lies over the file range of slot k
OverlappedInFile(dol, k) ==
  \E k2 \in 0 .. NumSlots - 1 :
    /\ k2 # k
    /\ Occupied(SlotOf(dol, k2))
    /\ RangesOverlap(SlotOf(dol, k).Offset, SlotOf(dol, k).Length,
                     SlotOf(dol, k2).Offset, SlotOf(dol, k2).Length)

\* the body bytes of slot k past the header that buf and mb both hold agree
SameBody(dol, buf, mb, k) ==
  LET sec == SlotOf(dol, k)
      lo  == IF sec.Offset[2] > DolHeaderSize THEN sec.Offset[2] ELSE DolHeaderSize
  IN  (Occupied(sec) /\ SmallSlot(sec) /\ ~OverlappedInFile(dol, k))
        => SameBytes(buf, mb, lo, sec.Offset[2] + sec.Length[2])

\* the whole body of slot k is in buf and in mb, and the same in both
WholeBody(dol, buf, mb, k) ==
  LET sec == SlotOf(dol, k)
      e   == sec.Offset[2] + sec.Length[2]
  IN  Occupied(sec) =>
        /\ SmallSlot(sec)
        /\ e <= Len(buf)
        /\ e <= Len(mb)
        /\ SubSeq(buf, sec.Offset[2] + 1, e) = SubSeq(mb, sec.Offset[2] + 1, e)

\* header word k of buf and of mb, as far as both reach
SameWord(buf, mb, k) == SameBytes(buf, mb, 4 * k, 4 * k + 4)

ZeroWord(buf, k) == ZeroBytes(buf, 4 * k, 4 * k + 4)

\* the callback has returned for an empty list of output sections: DolFile is
\* unmodified and BufData is what writeTo made of the zeroed buffer
RoundTripDone == pc = "callbackDone" /\ ~HasError /\ OutputSections = <<>>

CallbackReturned == pc = "callbackDone"

\* slot k was empty in the base DOL and the callback assigned it
NewlyAssigned(k) == ~Occupied(SlotOf(BaseDol, k)) /\ Occupied(SlotOf(DolFile, k))

\* every slot occupied in the base DOL, the BSS region and the entry point are
\* as the constructor left them
BaseSlotsKept ==
  /\ \A k \in 0 .. NumSlots - 1 :
       Occupied(SlotOf(BaseDol, k)) => SlotOf(DolFile, k) = SlotOf(BaseDol, k)
  /\ DolFile.BssAddr = BaseDol.BssAddr
  /\ DolFile.BssSize = BaseDol.BssSize
  /\ DolFile.EntryPoint = BaseDol.EntryPoint

C3_NewSlotsAboveBase ==
  CallbackReturned =>
    \A k \in 0 .. NumSlots - 1 :
      NewlyAssigned(k) =>
        /\ Le32(Config.InitialAddrOffset, SlotOf(DolFile, k).Addr)
        /\ Le32(Config.InitialFileOffset, SlotOf(DolFile, k).Offset)
        /\ \A b \in 0 .. NumSlots - 1 :
             Occupied(SlotOf(BaseDol, b)) =>
               /\ ~RangesOverlap(SlotOf(DolFile, k).Addr, SlotOf(DolFile, k).Length,
                                 SlotOf(BaseDol, b).Addr, SlotOf(BaseDol, b).Length)
               /\ ~RangesOverlap(SlotOf(DolFile, k).Offset, SlotOf(DolFile, k).Length,
                                 SlotOf(BaseDol, b).Offset, SlotOf(BaseDol, b).Length)

\* the symbols of the list are installed and none has been replaced yet
SymbolsInstalled == pc = "resolve" /\ Replaced = {}

\* addr lies in a text slot, a data slot or the BSS region of the base DOL
InBaseDol(addr) ==
  \/ \E k \in 0 .. NumSlots - 1 : AddrInSection(addr, SlotOf(BaseDol, k))
  \/ Le32(BaseDol.BssAddr, addr) /\ Lt32(addr, Add32(BaseDol.BssAddr, BaseDol.BssSize))

\* (kind, index) names the first region of the base DOL that contains addr,
\* scanning text slots, then data slots, then BSS
FirstContaining(addr, kind, index) ==
  IF \E i \in TextIdx : AddrInSection(addr, BaseDol.Texts[i])
  THEN /\ kind = "Text"
       /\ index \in TextIdx
       /\ AddrInSection(addr, BaseDol.Texts[index])
       /\ \A i \in TextIdx : i < index => ~AddrInSection(addr, BaseDol.Texts[i])
  ELSE IF \E j \in DataIdx : AddrInSection(addr, BaseDol.Datas[j])
  THEN /\ kind = "Data"
       /\ index \in DataIdx
       /\ AddrInSection(addr, BaseDol.Datas[index])
       /\ \A j \in DataIdx : j < index => ~AddrInSection(addr, BaseDol.Datas[j])
  ELSE kind = "Bss"

\* C4: for every record of the symbol list, no symbol is installed when its
\* address lies in no slot or BSS region of the base DOL; otherwise one
\* absolute symbol is installed with value = address and the section kind and
\* index validateSymbolAddr returns, those of the first containing region.
C4_SymbolsValidated ==
  SymbolsInstalled =>
    \A r \in 1 .. Len(DolSymListFile) :
      LET addr == DolSymListFile[r][1]
          syms == {k \in 1 .. Len(Symtab) : Symtab[k].Name = DolSymListFile[r][2]}
          v    == validateSymbolAddr(BaseDol, addr)
      IN  IF ~InBaseDol(addr) THEN syms = {}
          ELSE /\ Cardinality(syms) = 1
               /\ \A k \in syms :
                    /\ Symtab[k].Value = addr
                    /\ Symtab[k].Kind = "DefinedRegular"
                    /\ ~v.invalid
                    /\ Symtab[k].HanafudaType = v.secOut
                    /\ Symtab[k].HanafudaSection = v.secIdxOut
                    /\ FirstContaining(addr, Symtab[k].HanafudaType,
                                       Symtab[k].HanafudaSection)

\* C4 witness: of a list of three records one was discarded, and one of the
\* symbols installed lies in a slot whose index is not zero
C4_Witness ==
  /\ SymbolsInstalled
  /\ Len(DolSymListFile) = 3
  /\ Len(Symtab) = 2
  /\ \E k \in 1 .. Len(Symtab) : Symtab[k].HanafudaSection = 1

\* the address the call instruction at file offset offs of buffer mb targets
CallTargetAt(mb, offs) ==
  LET i  == CHOOSE i \in TextIdx :
              /\ Occupied(BaseDol.Texts[i])
              /\ offs >= Int32(BaseDol.Texts[i].Offset)
              /\ offs < Int32(BaseDol.Texts[i].Offset) + Int32(BaseDol.Texts[i].Length)
      va == Add32(BaseDol.Texts[i].Addr, U32(0, offs - Int32(BaseDol.Texts[i].Offset)))
  IN  getInstruction(mb, offs, va, 0).Inst.Imm

\* C5 (as stated): when a DefinedRegular symbol at old_va is replaced by a
\* definition at new_va, every call site recorded under old_va targets new_va
\* afterwards, and call sites recorded under other addresses are unchanged.
C5_CallSitesRewritten ==
  \A rp \in Replaced :
    \A c \in 1 .. Len(BaseDol.OrigCallAddrToInstFileOffs) :
      LET site == BaseDol.OrigCallAddrToInstFileOffs[c]
      IN  CallTargetAt(MB, site[2]) = IF site[1] = rp[1] THEN rp[2] ELSE site[1]

\* the base DOL as constructed has no empty text slot or no empty data slot
NoFreeSlot ==
  /\ BaseDol.hasValue
  /\ \/ \A i \in TextIdx : Occupied(BaseDol.Texts[i])
     \/ \A j \in DataIdx : Occupied(BaseDol.Datas[j])

\* main has found --hanafuda-base-dol absent
NoBaseDolArg == pc # "start" /\ ~Args.hanafuda_base_dol

C7_ShortBufferRejected ==
  ((BaseDol.hasValue \/ pc = "crashed") /\ Len(MB) < DolHeaderSize) =>
    /\ HasError
    /\ ~OutOfBounds

\* C8 (as stated): in every state after construction every occupied slot has a
\* file offset that is a multiple of 32, a length above zero and an end inside
\* the base buffer, and no slot body is read past the end of the buffer.
C8_SlotsWellFormed ==
  DolFile.hasValue =>
    /\ \A k \in 0 .. NumSlots - 1 :
         Occupied(SlotOf(DolFile, k)) =>
           /\ SlotOf(DolFile, k).Offset[2] % 32 = 0
           /\ SlotOf(DolFile, k).Length # Zero32
           /\ SmallSlot(SlotOf(DolFile, k))
           /\ SlotOf(DolFile, k).Offset[2] + SlotOf(DolFile, k).Length[2] <= Len(MB)
    /\ ~OutOfBounds

\* C9 (as stated): after construction DolphinSections is true exactly when at
\* least 2 text slots and at least 6 data slots of the base DOL are occupied.
C9_DolphinLayoutFlag ==
  BaseDol.hasValue =>
    (BaseDol.DolphinSections <=>
       /\ Cardinality({i \in TextIdx : Occupied(BaseDol.Texts[i])}) >= 2
       /\ Cardinality({j \in DataIdx : Occupied(BaseDol.Datas[j])}) >= 6)

\* the pattern lists of the four output sections, in order
ScriptPatterns ==
  << <<".sdata", <<".sdata", ".sbss">> >>,
     <<".sdata2", <<".sdata2", ".sbss2">> >>,
     <<".htext", <<".text", ".text.*">> >>,
     <<".hdata", <<".data", ".data.*", ".rodata", ".rodata.*", ".bss">> >> >>

\* C10 (as stated): the synthesized script holds exactly the four output
\* section commands .sdata, .sdata2, .htext, .hdata in this order, each
\* collecting exactly its own pattern list and each carrying the address
\* expression that rounds up to a multiple of 32.
C10_SynthesizedScript ==
  ScriptCommands # <<>> =>
    /\ Len(ScriptCommands) = Len(ScriptPatterns)
    /\ \A c \in 1 .. Len(ScriptPatterns) :
         /\ ScriptCommands[c].Name = ScriptPatterns[c][1]
         /\ Len(ScriptCommands[c].Commands) = 1
         /\ ScriptCommands[c].Commands[1].SectionPatterns = ScriptPatterns[c][2]
         /\ ScriptCommands[c].AddrExpr = "Align32Expr"


\* the parser has run
SymbolListLoaded == pc = "symlistDone"

RECURSIVE LinesOf(_)
\* the lines of a text: the pieces between its newlines
LinesOf(s) ==
  IF Positions(s, "\n") = {} THEN <<s>>
  ELSE <<split(s, "\n").first>> \o LinesOf(split(s, "\n").second)

\* length of the first token of l: its longest prefix without whitespace
TokenLen(l) ==
  IF \E k \in 1 .. Len(l) : l[k] \in Whitespace
  THEN Min({k \in 1 .. Len(l) : l[k] \in Whitespace}) - 1
  ELSE Len(l)

AllDigits(s, radix) == s # <<>> /\ \A k \in 1 .. Len(s) : CharVal(s[k]) < radix

\* radix and digits of a token read as a hex (0x...), octal (0...) or decimal
\* literal
LiteralRadix(tok) ==
  IF StartsWith(tok, <<"0", "x">>) \/ StartsWith(tok, <<"0", "X">>) THEN 16
  ELSE IF Len(tok) > 1 /\ tok[1] = "0" THEN 8
  ELSE 10

LiteralDigits(tok) ==
  IF LiteralRadix(tok) = 16 THEN SubSeq(tok, 3, Len(tok))
  ELSE IF LiteralRadix(tok) = 8 THEN Tail(tok)
  ELSE tok

RECURSIVE DigitsValue(_, _)
\* the value of a digit string as <<high part, low 16 bits>>; the high part
\* stops at Half once the value no longer fits 32 bits
DigitsValue(d, radix) ==
  IF d = <<>> THEN <<0, 0>>
  ELSE LET v == DigitsValue(SubSeq(d, 1, Len(d) - 1), radix)
           l == v[2] * radix + CharVal(d[Len(d)])
           h == v[1] * radix + (l \div Half)
       IN  <<IF h >= Half THEN Half ELSE h, l % Half>>

\* the first token of l is an integer literal of 32 bits
IsInteger(tok) ==
  /\ AllDigits(LiteralDigits(tok), LiteralRadix(tok))
  /\ DigitsValue(LiteralDigits(tok), LiteralRadix(tok))[1] < Half

\* the record of one line, as a sequence of zero or one records
RecordOfLine(line) ==
  LET l    == ltrim(line)
      tok  == SubSeq(l, 1, TokenLen(l))
      name == rtrim(ltrim(SubSeq(l, TokenLen(l) + 1, Len(l))))
  IN  IF IsInteger(tok) /\ name # <<>>
      THEN << <<DigitsValue(LiteralDigits(tok), LiteralRadix(tok)), name>> >>
      ELSE <<>>

RECURSIVE RecordsOfLines(_)
RecordsOfLines(lines) ==
  IF lines = <<>> THEN <<>>
  ELSE RecordOfLine(Head(lines)) \o RecordsOfLines(Tail(lines))

\* C11 (as stated): the parser yields, in file order, one (address, name)
\* record for every line made of optional leading whitespace, an integer
\* literal, whitespace and a name, the first line included, and no record for
\* any other line.
C11_SymbolListParsed ==
  SymbolListLoaded => DolSymListFile = RecordsOfLines(LinesOf(dolListBuffer))

\* the base DOL has been constructed
Constructed == BaseDol.hasValue

\* the call-site index built by the constructor
CallSiteIndex == BaseDol.OrigCallAddrToInstFileOffs

\* the decode of the four bytes at file offset offs, taken as the instruction
\* at that offset of text slot i
DecodeInSlot(i, offs) ==
  getInstruction(MB, offs,
                 Add32(BaseDol.Texts[i].Addr,
                       U32(0, offs - Int32(BaseDol.Texts[i].Offset))), 0)

\* the instruction is a call that implicitly defines the link register
IsCallDefLR(D) == D.S # "Fail" /\ D.Inst.isCall /\ D.Inst.defLR

\* file offset offs lies inside occupied text slot i
InTextSlot(i, offs) ==
  /\ Occupied(BaseDol.Texts[i])
  /\ SmallSlot(BaseDol.Texts[i])
  /\ offs >= Int32(BaseDol.Texts[i].Offset)
  /\ offs < Int32(BaseDol.Texts[i].Offset) + Int32(BaseDol.Texts[i].Length)

\* the file offsets of text slot i the scan decodes an instruction at, the
\* buffer holding all four bytes of it
ScanOffsets(i) ==
  IF Occupied(BaseDol.Texts[i]) /\ SmallSlot(BaseDol.Texts[i])
  THEN {offs \in Int32(BaseDol.Texts[i].Offset) ..
                 Int32(BaseDol.Texts[i].Offset) + Int32(BaseDol.Texts[i].Length) - 1 :
          /\ (offs - Int32(BaseDol.Texts[i].Offset)) % 4 = 0
          /\ offs + 4 <= Len(MB)}
  ELSE {}

\* C12: every entry (va -> offs) of the call-site index names the file offset
\* of an instruction inside an occupied text slot that decodes to a call which
\* implicitly defines the link register and whose first immediate operand is
\* va; and every such call the scan reaches whose immediate is not 0xffffffff
\* has an entry.
C12_CallSiteIndex ==
  Constructed =>
    /\ \A c \in 1 .. Len(CallSiteIndex) :
         \E i \in TextIdx :
           /\ InTextSlot(i, CallSiteIndex[c][2])
           /\ IsCallDefLR(DecodeInSlot(i, CallSiteIndex[c][2]))
           /\ DecodeInSlot(i, CallSiteIndex[c][2]).Inst.Imm = CallSiteIndex[c][1]
    /\ \A i \in TextIdx :
         \A offs \in ScanOffsets(i) :
           (IsCallDefLR(DecodeInSlot(i, offs))
              /\ DecodeInSlot(i, offs).Inst.Imm # AllOnes32)
             => \E c \in 1 .. Len(CallSiteIndex) :
                  CallSiteIndex[c] = <<DecodeInSlot(i, offs).Inst.Imm, offs>>

\* C12 witness: the index holds the call at file offset 0x108 of text slot 0
\* under its target, and the scan passed a call without an immediate operand
C12_Witness ==
  /\ Constructed
  /\ \E c \in 1 .. Len(CallSiteIndex) :
       /\ CallSiteIndex[c][2] = DolHeaderSize + 8
       /\ CallSiteIndex[c][1] = BaseDol.Texts[0].Addr
  /\ \E offs \in ScanOffsets(0) :
       /\ IsCallDefLR(DecodeInSlot(0, offs))
       /\ DecodeInSlot(0, offs).Inst.Imm = AllOnes32

\* text slot 0 is occupied and the buffer holds all of it, a whole number of
\* instruction words
InitInBuffer ==
  /\ Occupied(BaseDol.Texts[0])
  /\ SmallSlot(BaseDol.Texts[0])
  /\ Int32(BaseDol.Texts[0].Length) % 4 = 0
  /\ Int32(BaseDol.Texts[0].Offset) + Int32(BaseDol.Texts[0].Length) <= Len(MB)

\* halves of the k-th instruction word of text slot 0, counted from 1
InitWordHi(k) ==
  MB[Int32(BaseDol.Texts[0].Offset) + 4 * k - 3] * 256
    + MB[Int32(BaseDol.Texts[0].Offset) + 4 * k - 2]

InitWordLo(k) ==
  MB[Int32(BaseDol.Texts[0].Offset) + 4 * k - 1] * 256
    + MB[Int32(BaseDol.Texts[0].Offset) + 4 * k]

\* the word is "lis reg, H" (addis reg, 0, H) / "ori reg, rS, L"
IsLisOf(hi, reg) == hi = 15 * 1024 + reg * 32

IsOriOf(hi, reg) == hi \div 1024 = 24 /\ hi % 32 = reg

RECURSIVE BaseAfter(_, _)
\* the base kept for register reg after the first k words of text slot 0
BaseAfter(reg, k) ==
  IF k = 0 THEN Zero32
  ELSE LET prev == BaseAfter(reg, k - 1)
       IN  IF IsLisOf(InitWordHi(k), reg) THEN U32(InitWordLo(k), 0)
           ELSE IF IsOriOf(InitWordHi(k), reg)
           THEN U32(prev[1], BitOr(prev[2], InitWordLo(k)))
           ELSE prev

InitWords == Int32(BaseDol.Texts[0].Length) \div 4

\* C13: a LIS on R1, R2 or R13 in text slot 0 sets the upper half of
\* StackBase, Sdata2Base or SdataBase to its immediate, an ORI on that
\* register ORs its immediate into the lower half, and instructions of other
\* text slots change none of the three bases.
C13_SdkBases ==
  Constructed =>
    /\ InitInBuffer =>
         /\ BaseDol.StackBase = BaseAfter(1, InitWords)
         /\ BaseDol.Sdata2Base = BaseAfter(2, InitWords)
         /\ BaseDol.SdataBase = BaseAfter(13, InitWords)
    /\ ~Occupied(BaseDol.Texts[0]) =>
         /\ BaseDol.StackBase = Zero32
         /\ BaseDol.Sdata2Base = Zero32
         /\ BaseDol.SdataBase = Zero32

\* C13 witness: text slot 0 holds "lis r1,0x8040; ori r1,r1,0x1234" and
\* StackBase is 0x80401234; SdataBase and Sdata2Base are recovered with it
C13_Witness ==
  /\ Constructed
  /\ InitInBuffer
  /\ InitWordHi(1) = 15392 /\ InitWordLo(1) = 32832
  /\ InitWordHi(2) = 24609 /\ InitWordLo(2) = 4660
  /\ BaseDol.StackBase = U32(32832, 4660)
  /\ BaseDol.SdataBase = U32(32833, 32)
  /\ BaseDol.Sdata2Base = U32(32834, 0)
  /\ Occupied(BaseDol.Texts[1])

\* the callback has returned without reporting an error
CallbackSucceeded == pc = "callbackDone" /\ ~HasError

\* what an output section is recorded into: a slot of its own for .sdata,
\* .sdata2 and .htext, the one patch data slot for every other name
TargetOf(name) == IF name \in {".sdata", ".sdata2", ".htext"} THEN name ELSE "patch"

\* positions of the output sections with a non-zero file offset recorded into t
SectionsOf(t) ==
  {k \in 1 .. Len(OutputSections) :
     OutputSections[k].FileOff # Zero32 /\ TargetOf(OutputSections[k].Name) = t}

Targets == {".sdata", ".sdata2", ".htext", "patch"}

PresentTargets == {t \in Targets : SectionsOf(t) # {}}

TextTarget(t) == t = ".htext"

\* number of targets of the kind of t presented before t
RankOf(t) ==
  Cardinality({u \in PresentTargets :
                 TextTarget(u) = TextTarget(t) /\ Min(SectionsOf(u)) < Min(SectionsOf(t))})

\* the slots of the kind of t that the base DOL left empty, as slot numbers
EmptyOfKind(t) ==
  {k \in 0 .. NumSlots - 1 : (k < NumText) = TextTarget(t) /\ ~Occupied(SlotOf(BaseDol, k))}

\* the slot number t is to be recorded into: the empty slot of its kind with
\* RankOf(t) empty slots of that kind below it (-1: there is none)
SlotFor(t) ==
  IF \E k \in EmptyOfKind(t) : Cardinality({m \in EmptyOfKind(t) : m < k}) = RankOf(t)
  THEN CHOOSE k \in EmptyOfKind(t) : Cardinality({m \in EmptyOfKind(t) : m < k}) = RankOf(t)
  ELSE 0 - 1

\* slot k holds what the callback records for target t
RecordedIn(t, k) ==
  LET first == OutputSections[Min(SectionsOf(t))]
  IN  /\ SlotOf(DolFile, k).Offset = first.FileOff
      /\ SlotOf(DolFile, k).Addr = first.VA
      /\ t # "patch" => SlotOf(DolFile, k).Length = first.Size

\* the lookups return the lowest empty slot, and -1 exactly when there is none
UnusedIndexRight(dol) ==
  /\ (getUnusedTextSectionIndex(dol) = -1) = (\A i \in TextIdx : Occupied(dol.Texts[i]))
  /\ (getUnusedDataSectionIndex(dol) = -1) = (\A j \in DataIdx : Occupied(dol.Datas[j]))
  /\ \A i \in TextIdx :
       getUnusedTextSectionIndex(dol) = i
         <=> (~Occupied(dol.Texts[i]) /\ \A m \in 0 .. i - 1 : Occupied(dol.Texts[m]))
  /\ \A j \in DataIdx :
       getUnusedDataSectionIndex(dol) = j
         <=> (~Occupied(dol.Datas[j]) /\ \A m \in 0 .. j - 1 : Occupied(dol.Datas[m]))

\* C14: in the callback each of .sdata, .sdata2 and .htext with a non-zero
\* file offset is recorded into the lowest slot of its kind empty at that
\* moment, all other sections share one data slot reserved the same way, no
\* two targets are recorded into the same slot, and the two lookups return -1
\* exactly when all 7 text / 11 data slots are occupied.
C14_FreshSlots ==
  /\ DolFile.hasValue => UnusedIndexRight(DolFile)
  /\ CallbackSucceeded =>
       /\ \A t \in PresentTargets : SlotFor(t) # -1 /\ RecordedIn(t, SlotFor(t))
       /\ \A t, u \in PresentTargets : t # u => SlotFor(t) # SlotFor(u)
       /\ \A k \in 0 .. NumSlots - 1 :
            NewlyAssigned(k) <=> \E t \in PresentTargets : SlotFor(t) = k

\* C14 witness: .sdata, .sdata2 and other sections were recorded into three
\* data slots of a base DOL whose lowest data slots were occupied
C14_Witness ==
  /\ CallbackSucceeded
  /\ Occupied(BaseDol.Datas[0])
  /\ {".sdata", ".sdata2", "patch"} \subseteq PresentTargets
  /\ Cardinality({k \in 0 .. NumSlots - 1 : NewlyAssigned(k)}) = 3

\* a wide end e1 is not beyond a wide end e2
LeWide(e1, e2) ==
  \/ e1[1] < e2[1]
  \/ e1[1] = e2[1] /\ Le32(<<e1[2], e1[3]>>, <<e2[2], e2[3]>>)

\* the patch data slot after the callback
PatchSlot == SlotOf(DolFile, SlotFor("patch"))

\* output sections were accumulated into the patch data slot
PatchAccumulated == CallbackSucceeded /\ SectionsOf("patch") # {}

\* [Sec.VA, Sec.VA + Sec.Size) lies inside the address range of slot sec
CoveredBy(Sec, sec) ==
  /\ Le32(sec.Addr, Sec.VA)
  /\ LeWide(Wide(Sec.VA, Sec.Size), Wide(sec.Addr, sec.Length))

\* the patch data slot starts at the first accumulated section and covers
\* every accumulated section
PatchSlotCovers ==
  /\ PatchSlot.Addr = OutputSections[Min(SectionsOf("patch"))].VA
  /\ \A k \in SectionsOf("patch") : CoveredBy(OutputSections[k], PatchSlot)

\* the host presented the accumulated sections in ascending VA order
PatchAscending ==
  \A k1, k2 \in SectionsOf("patch") :
    k1 < k2 => Lt32(OutputSections[k1].VA, OutputSections[k2].VA)

\* C15 (as stated): after the callback the patch data slot starts at the VA
\* of the first section accumulated into it and covers every accumulated
\* section, for every order in which the host presents the sections.
C15_PatchSlotCovers == PatchAccumulated => PatchSlotCovers

\* C15 (amended): after the callback the patch data slot starts at the VA of
\* the first section accumulated into it, and it covers every accumulated
\* section when the host presented those sections in ascending VA order.
C15_PatchSlotCoversAmended ==
  PatchAccumulated =>
    /\ PatchSlot.Addr = OutputSections[Min(SectionsOf("patch"))].VA
    /\ PatchAscending => PatchSlotCovers

\* C15 witness: two sections presented in ascending VA order were accumulated
\* and the slot reaches from the first to the end of the second
C15_Witness ==
  /\ PatchAccumulated
  /\ Cardinality(SectionsOf("patch")) = 2
  /\ PatchAscending
  /\ PatchSlotCovers
  /\ PatchSlot.Length = U32(0, 48)

\* the callback has returned after reporting an error
CallbackFailed == pc = "callbackDone" /\ HasError

\* the targets for which the base DOL has no empty slot left when their
\* first section is reached
Unplaced == {t \in PresentTargets : SlotFor(t) = -1}

\* position of the first output section that finds no empty slot
Culprit == Min({Min(SectionsOf(t)) : t \in Unplaced})

\* the message the callback gives for the section at position k
RanOutMessage(k) ==
  <<IF TextTarget(TargetOf(OutputSections[k].Name))
    THEN "Ran out of DOL text sections for"
    ELSE "Ran out of DOL data sections for",
    OutputSections[k].Name>>

\* C16: when the callback reaches an output section with a non-zero file
\* offset for which no empty slot of the needed kind remains, it reports an
\* error naming that section, sets HasError, and returns at once: no later
\* section is recorded and the base DOL is not stamped into the output buffer.
C16_CallbackError ==
  pc = "callbackDone" =>
    /\ HasError <=> Unplaced # {}
    /\ HasError =>
         /\ Errors = <<RanOutMessage(Culprit)>>
         /\ \A k \in 0 .. NumSlots - 1 :
              NewlyAssigned(k)
                <=> \E t \in PresentTargets :
                      Min(SectionsOf(t)) < Culprit /\ SlotFor(t) = k
         /\ ZeroBytes(BufData, 0, Len(BufData))

\* C16 witness: the startup check passed, the second of three sections found
\* no empty data slot, and the .htext section after it was not recorded
C16_Witness ==
  /\ CallbackFailed
  /\ Len(OutputSections) = 3
  /\ Culprit = 2
  /\ OutputSections[3].Name = ".htext"
  /\ DolFile.Texts = BaseDol.Texts
  /\ \E k \in NumText .. NumSlots - 1 : NewlyAssigned(k)
  /\ Len(BufData) > DolHeaderSize

\* the end offs + len of a slot range, without wrap-around
WideEnd(start, len) == Wide(start, len)

\* r is what the claim says of the ends of the occupied slots, start being
\* "Offset" or "Addr": a multiple of 32, not below any end, and less than 32
\* above the largest (zero when no slot is occupied)
RoundedMaxEnd(r, start) ==
  /\ r[2] % 32 = 0
  /\ \A k \in 0 .. NumSlots - 1 :
       Occupied(SlotOf(BaseDol, k))
         => LeWide(WideEnd(SlotOf(BaseDol, k)[start], SlotOf(BaseDol, k).Length),
                   <<0, r[1], r[2]>>)
  /\ IF \E k \in 0 .. NumSlots - 1 : Occupied(SlotOf(BaseDol, k))
     THEN \E k \in 0 .. NumSlots - 1 :
            /\ Occupied(SlotOf(BaseDol, k))
            /\ LtWide(r, Wide(Add32(SlotOf(BaseDol, k)[start], SlotOf(BaseDol, k).Length),
                              U32(0, 32)))
     ELSE r = Zero32

\* C17 (as stated): getUnallocatedFileOffset() and
\* getUnallocatedAddressOffset() return the largest end of an occupied slot,
\* in file and in address space, rounded up to a multiple of 32: a multiple
\* of 32, not less than the end of any occupied slot, less than 32 above the
\* largest end, with no wrap-around of the 32-bit sums.
C17_UnallocatedOffsets ==
  Constructed =>
    /\ RoundedMaxEnd(getUnallocatedFileOffset(BaseDol), "Offset")
    /\ RoundedMaxEnd(getUnallocatedAddressOffset(BaseDol), "Addr")

\* ------------------------------------------------------------------------
\* The walk of the disassembly scan
\* ------------------------------------------------------------------------

\* the process faulted inside the scan, the header having been read in bounds
ScanFaulted == pc = "crashed" /\ ~Constructed /\ ~HeaderReadOutOfBounds(MB)

\* the iterations the scan made in text slot i, in order
IterationsOf(i) == SelectSeq(ScanTrace, LAMBDA e : e.s = i)

\* the advance an iteration makes when a decode failure moves the cursor by
\* one byte and every other status by the decoded size
AdvanceByOne(e) == IF e.S = "Fail" THEN 1 ELSE e.Size

\* the cursor after iteration e when failures advance it by one byte
CursorAfter(e) == e.Index + AdvanceByOne(e)

\* text slot i was walked from offset 0 to its length, each iteration starting
\* where the one before it left the cursor
ScannedToEnd(i) ==
  LET its == IterationsOf(i)
      Length == Int32(BaseDol.Texts[i].Length)
  IN  /\ (Length > 0) = (its # <<>>)
      /\ its # <<>> =>
           /\ its[1].Index = 0
           /\ \A k \in 1 .. Len(its) :
                /\ AdvanceByOne(its[k]) > 0
                /\ its[k].Index < Length
                /\ k < Len(its) => its[k + 1].Index = CursorAfter(its[k])
           /\ CursorAfter(its[Len(its)]) >= Length

\* C18: the disassembly scan terminates and never stops early: in every
\* occupied text slot the cursor strictly advances on every iteration, by the
\* decoded size on success or soft failure and by one byte on a decode
\* failure, until it reaches the slot's length.
C18_ScanAdvances ==
  /\ ~ScanFaulted
  /\ Constructed => \A i \in TextIdx : Occupied(BaseDol.Texts[i]) => ScannedToEnd(i)

=============================================================================
